---- MODULE Spec2Model ----
(***************************************************************************)
(* A model of MongoDB_dashboard.py: the two aggregations over a collection *)
(* of series documents (calculate_seasons, calculate_professionals), the   *)
(* two consumers of their results (plot_data, export_data_to_csv) and the  *)
(* Streamlit script run (main) with its session state and resource cache.  *)
(***************************************************************************)
EXTENDS Integers, Sequences, FiniteSets, TLC

VARIABLES
    collection,        \* the documents of the collection "series", a sequence
    keys_to_consider,  \* the credit field names read from keys_to_consider.csv
    call,              \* the function applied last ("" before any call)
    ret,               \* what that call returned, or the exception it raised
    session_state,     \* st.session_state.collection: None or a collection handle
    cache,             \* st.cache_resource of get_collection: arguments -> result
    ui                 \* what the last script run of main put on the page

vars == <<collection, keys_to_consider, call, ret, session_state, cache, ui>>

(***************************************************************************)
(* Bounds of the enumerated inputs.                                        *)
(***************************************************************************)
MaxRecs == 2         \* documents in a collection
MaxYearOffset == 1   \* integer years are 2010 .. 2010 + MaxYearOffset
MaxSeasons == 2      \* largest integer "number of seasons"
MaxCredits == 1      \* longest credit array

(***************************************************************************)
(* BSON values, tagged with what $type answers for them.  An array is      *)
(* represented by its number of elements, the only thing $size reads.      *)
(***************************************************************************)
Missing == [t |-> "missing", v |-> 0]
Null == [t |-> "null", v |-> 0]
StringV == [t |-> "string", v |-> 0]
IntV(n) == [t |-> "int", v |-> n]
DoubleV(n) == [t |-> "double", v |-> n]
ArrayV(n) == [t |-> "array", v |-> n]

Doc(y, s, c, w) == [year |-> y, number_of_seasons |-> s, cast |-> c, writers |-> w]

\* "$field" on a document: the value, or missing.
Field(d, key) == IF key \in DOMAIN d THEN d[key] ELSE Missing

\* The _id a $group stage gives a document for the key "$year": a missing field
\* groups under null.
GroupId(d) == IF d.year.t = "missing" THEN Null ELSE d.year

RECURSIVE SumOver(_, _)
\* Sum of f[x] over the finite set S.
SumOver(S, f) ==
    IF S = {} THEN 0
    ELSE LET x == CHOOSE e \in S : TRUE IN f[x] + SumOver(S \ {x}, f)

RECURSIVE sorted(_)
\* Python's sorted() of a set of keys of one type: ascending.
sorted(S) ==
    IF S = {} THEN <<>>
    ELSE LET m == CHOOSE x \in S : \A y \in S : x.v <= y.v
         IN <<m>> \o sorted(S \ {m})

\* sorted() raises TypeError when it has to compare keys of different types
\* (a str with an int).
sorted_raises(S) == \E x, y \in S : x.t # y.t

(***************************************************************************)
(* calculate_seasons                                                       *)
(***************************************************************************)
\* {"$match": {"year": {"$ne": None}}}: the year exists and is not null.
match_year(d) == d.year.t \notin {"missing", "null"}

\* pipeline_products: $match, then $group by "$year" with {"$sum": 1}.
pipeline_products(coll) ==
    LET idx == {i \in 1..Len(coll) : match_year(coll[i])}
    IN [k \in {coll[i].year : i \in idx} |->
            Cardinality({i \in idx : coll[i].year = k})]

\* A variant that defaults only a null season count, not every non-int one.
project_only_null(d) ==
    IF d.number_of_seasons.t = "null" THEN 1 ELSE d.number_of_seasons.v

\* The first $project of pipeline_seasons: 1 unless $type is "int".
project_number_of_seasons(d) ==
    IF d.number_of_seasons.t = "null" \/ d.number_of_seasons.t # "int"
    THEN 1
    ELSE d.number_of_seasons.v

\* $add refuses a string operand: the aggregate call raises OperationFailure.
add_fails(d) == d.year.t \notin {"int", "double"}

\* A variant that takes the last year of the window for its end.
end_range_last_year(d) == d.year.v + project_number_of_seasons(d) - 1

\* $addFields: end_range = year + number of seasons.
end_range(d) == d.year.v + project_number_of_seasons(d)

\* A variant whose range includes end_range.
year_range_inclusive(d) == d.year.v .. end_range(d)

\* {"$range": ["$year", "$end_range"]}: empty when end_range <= year.
year_range(d) == d.year.v .. (end_range(d) - 1)

\* pipeline_seasons after $unwind and $group: for each year of some range, the
\* number of documents whose range holds it.  $unwind drops an empty range.
pipeline_seasons(coll) ==
    LET idx == {i \in 1..Len(coll) : match_year(coll[i])}
        ys == UNION {year_range(coll[i]) : i \in idx}
    IN [k \in {IntV(y) : y \in ys} |->
            Cardinality({i \in idx : k.v \in year_range(coll[i])})]

pipeline_seasons_raises(coll) ==
    \E i \in 1..Len(coll) : match_year(coll[i]) /\ add_fails(coll[i])

\* Counter.get(year, 0)
get(counter, k) == IF k \in DOMAIN counter THEN counter[k] ELSE 0

Raised(e) ==
    [raised |-> e, years |-> <<>>, original_frequencies_list |-> <<>>,
     modified_frequencies_list |-> <<>>]

calculate_seasons(coll) ==
    LET original_frequencies == pipeline_products(coll)
    IN IF pipeline_seasons_raises(coll) THEN Raised("OperationFailure")
       ELSE
       LET modified_frequencies == pipeline_seasons(coll)
           keys == DOMAIN original_frequencies \cup DOMAIN modified_frequencies
       IN IF sorted_raises(keys) THEN Raised("TypeError")
          ELSE
          LET years == sorted(keys)
          IN [raised |-> "",
              years |-> years,
              original_frequencies_list |->
                  [i \in 1..Len(years) |-> get(original_frequencies, years[i])],
              modified_frequencies_list |->
                  [i \in 1..Len(years) |-> get(modified_frequencies, years[i])]]

(***************************************************************************)
(* calculate_professionals                                                 *)
(***************************************************************************)
\* sum_fields is a dict: one $cond per distinct key.
sum_fields(keys) == {keys[i] : i \in 1..Len(keys)}

\* A variant without the $isArray test: a present value that is not an array
\* counts as one credit.
cond_size_unchecked(d, key) ==
    IF Field(d, key).t = "array" THEN Field(d, key).v
    ELSE IF Field(d, key).t = "missing" THEN 0 ELSE 1

\* {"$cond": {"if": {"$isArray": "$key"}, "then": {"$size": "$key"}, "else": 0}}
cond_size(d, key) == IF Field(d, key).t = "array" THEN Field(d, key).v ELSE 0

\* {"$add": [...]} of the $cond values of one document.
add_sizes(d, keys) ==
    SumOver(sum_fields(keys), [key \in sum_fields(keys) |-> cond_size(d, key)])

\* $group by "$year" with total_credits = $sum of the $add.
aggregation_result(coll, keys) ==
    LET idx == 1..Len(coll)
    IN [k \in {GroupId(coll[i]) : i \in idx} |->
            LET mine == {i \in idx : GroupId(coll[i]) = k}
            IN SumOver(mine, [i \in mine |-> add_sizes(coll[i], keys)])]

\* The Counter filled from the records whose _id is not None.
credits_counter(coll, keys) ==
    LET res == aggregation_result(coll, keys)
    IN [k \in {x \in DOMAIN res : x.t # "null"} |-> res[k]]

calculate_professionals(coll, keys) ==
    LET counter == credits_counter(coll, keys)
    IN IF sorted_raises(DOMAIN counter)
       THEN [raised |-> "TypeError", credits |-> <<>>, credits_counter |-> counter]
       ELSE LET years == sorted(DOMAIN counter)
            IN [raised |-> "",
                credits |-> [i \in 1..Len(years) |-> counter[years[i]]],
                credits_counter |-> counter]

(***************************************************************************)
(* plot_data                                                               *)
(***************************************************************************)
\* go.Bar for 'Bar Chart', go.Scatter(mode='lines+markers') otherwise.
trace(plot_type, name, x, y) ==
    [kind |-> IF plot_type = "Bar Chart" THEN "Bar" ELSE "Scatter",
     name |-> name, x |-> x, y |-> y]

plot_data(coll, plot_type, keys) ==
    LET seasons == calculate_seasons(coll)
        years == seasons.years
        original_frequencies == seasons.original_frequencies_list
        modified_frequencies == seasons.modified_frequencies_list
    IN IF seasons.raised # ""
       THEN [raised |-> seasons.raised, fig1 |-> <<>>, fig2 |-> <<>>]
       ELSE
       LET professionals == calculate_professionals(coll, keys)
           credits == professionals.credits
       IN IF professionals.raised # ""
          THEN [raised |-> professionals.raised, fig1 |-> <<>>, fig2 |-> <<>>]
          ELSE [raised |-> "",
                fig1 |-> <<trace(plot_type, "New Series", years, original_frequencies),
                           trace(plot_type, "Total Series in Production", years,
                                 modified_frequencies)>>,
                fig2 |-> <<trace(plot_type, "Professionals", years, credits)>>]

(***************************************************************************)
(* export_data_to_csv                                                      *)
(***************************************************************************)
Max(a, b) == IF a >= b THEN a ELSE b

\* One column of the CSV: the list padded with np.nan up to max_length.  A padded
\* column is a float column (its numbers are written as floats, its NaN as an
\* empty cell); an unpadded one keeps its integers.
column(list, max_length) ==
    [i \in 1..max_length |->
        IF i <= Len(list)
        THEN [t |-> IF Len(list) < max_length THEN "float" ELSE "int", v |-> list[i]]
        ELSE [t |-> "nan", v |-> 0]]

header == <<"Year", "Total Series in Production", "New Series", "Professionals">>

export_data_to_csv(coll, keys) ==
    LET seasons == calculate_seasons(coll)
        years == [i \in 1..Len(seasons.years) |-> seasons.years[i].v]
        total_series == seasons.original_frequencies_list
        new_series == seasons.modified_frequencies_list
    IN IF seasons.raised # ""
       THEN [raised |-> seasons.raised, header |-> <<>>, rows |-> <<>>]
       ELSE
       LET result == calculate_professionals(coll, keys)
           professionals == result.credits
           max_length == Max(Max(Len(years), Len(total_series)),
                             Max(Len(new_series), Len(professionals)))
       IN IF result.raised # ""
          THEN [raised |-> result.raised, header |-> <<>>, rows |-> <<>>]
          ELSE [raised |-> "",
                header |-> header,
                rows |-> [i \in 1..max_length |->
                    <<column(years, max_length)[i],
                      column(total_series, max_length)[i],
                      column(new_series, max_length)[i],
                      column(professionals, max_length)[i]>>]]

(***************************************************************************)
(* The enumerated inputs: collections are taken up to the order of their   *)
(* documents, which no stage of the pipelines reads.                       *)
(***************************************************************************)
IntYears == {IntV(y) : y \in 2010..(2010 + MaxYearOffset)}
YearVals == {Missing, Null, StringV} \cup IntYears
SeasonVals == {Missing, Null, DoubleV(2)} \cup {IntV(s) : s \in (0 - 1)..MaxSeasons}
CreditVals == {Missing, StringV} \cup {ArrayV(n) : n \in 0..MaxCredits}

SeasonDocs == {Doc(y, s, Missing, Missing) : y \in YearVals, s \in SeasonVals}
CreditDocs ==
    {Doc(y, Missing, c, w) : y \in {Missing, StringV} \cup IntYears,
                             c \in CreditVals, w \in {Missing, ArrayV(1)}}
SeriesDocs ==
    {Doc(y, s, c, Missing) :
        y \in IntYears,
        s \in {Missing} \cup {IntV(n) : n \in 1..MaxSeasons},
        c \in {Missing} \cup {ArrayV(n) : n \in 0..MaxCredits}}

KeyLists == {<<>>, <<"cast">>, <<"cast", "writers">>, <<"cast", "cast">>}

\* The record set of the end-to-end scenario.
Scenario ==
    <<Doc(IntV(2010), Missing, Missing, Missing),
      Doc(IntV(2010), IntV(3), Missing, Missing),
      Doc(IntV(2012), Missing, ArrayV(2), Missing)>>

RECURSIVE SetToSeq(_)
SetToSeq(S) ==
    IF S = {} THEN <<>>
    ELSE LET x == CHOOSE e \in S : TRUE IN <<x>> \o SetToSeq(S \ {x})

RECURSIVE Ascending(_, _, _)
\* The non-decreasing sequences of n indices in lo..hi.
Ascending(n, lo, hi) ==
    IF n = 0 THEN {<<>>}
    ELSE UNION {{<<i>> \o s : s \in Ascending(n - 1, i, hi)} : i \in lo..hi}

\* The collections of at most MaxRecs documents of docs.
Collections(docs) ==
    LET list == SetToSeq(docs)
    IN UNION {{[j \in 1..n |-> list[s[j]]] : s \in Ascending(n, 1, Len(list))} :
                n \in 0..MaxRecs}

None == "None"

\* The page of a run that has shown nothing.
InitPage ==
    [pressed |-> "", returned |-> None, notice |-> "", success |-> FALSE,
     warning |-> FALSE, charts |-> <<>>, error |-> "", download |-> <<>>]

InitIdle ==
    /\ call = ""
    /\ ret = <<>>
    /\ session_state = None
    /\ cache = <<>>
    /\ ui = InitPage

InitSeasons ==
    /\ collection \in Collections(SeasonDocs)
    /\ keys_to_consider = <<"cast">>
    /\ InitIdle

InitCredits ==
    /\ collection \in Collections(CreditDocs)
    /\ keys_to_consider \in KeyLists
    /\ InitIdle

Init ==
    /\ collection \in Collections(SeriesDocs) \cup {Scenario}
    /\ keys_to_consider = <<"cast">>
    /\ InitIdle

(***************************************************************************)
(* The calls.                                                              *)
(***************************************************************************)
CalculateSeasons ==
    /\ call' = "calculate_seasons"
    /\ ret' = calculate_seasons(collection)
    /\ UNCHANGED <<collection, keys_to_consider, session_state, cache, ui>>

CalculateProfessionals ==
    /\ call' = "calculate_professionals"
    /\ ret' = calculate_professionals(collection, keys_to_consider)
    /\ UNCHANGED <<collection, keys_to_consider, session_state, cache, ui>>

PlotData ==
    \E plot_type \in {"Bar Chart", "Line Chart"} :
        /\ call' = "plot_data"
        /\ ret' = plot_data(collection, plot_type, keys_to_consider)
        /\ UNCHANGED <<collection, keys_to_consider, session_state, cache, ui>>

ExportDataToCsv ==
    /\ call' = "export_data_to_csv"
    /\ ret' = export_data_to_csv(collection, keys_to_consider)
    /\ UNCHANGED <<collection, keys_to_consider, session_state, cache, ui>>

(***************************************************************************)
(* get_collection and main                                                 *)
(***************************************************************************)
\* The server: one database "tv" holding the collections "series" (the documents
\* of the variable collection) and "films".
Databases == {"tv"}
CollectionNames == {"series", "films"}
Films == <<Doc(IntV(2011), IntV(2), ArrayV(1), Missing)>>
Documents(handle) == IF handle = "series" THEN collection ELSE Films

\* What the user may have typed in the three text inputs.
TextInputs ==
    {<<"mongodb://host", "tv", "series">>, <<"mongodb://host", "tv", "films">>,
     <<"host", "tv", "series">>, <<"mongodb://host", "nodb", "series">>,
     <<"mongodb://host", "tv", "nocoll">>}

\* The server when a call reaches it: up, down (server selection times out,
\* which is a ConnectionFailure) or denied (an OperationFailure).
Status == {"up", "down", "denied"}

\* The body of get_collection: the collection, or None with the message shown.
get_collection(args, status) ==
    IF args[1] # "mongodb://host"
    THEN [value |-> None, notice |-> "Invalid MongoDB URI. Please check the format."]
    ELSE IF status = "down"
    THEN [value |-> None, notice |-> "Failed to connect to the server."]
    ELSE IF status = "denied"
    THEN [value |-> None, notice |-> "Operation failed."]
    ELSE IF args[2] \notin Databases
    THEN [value |-> None, notice |-> "The database does not exist."]
    ELSE IF args[3] \notin CollectionNames
    THEN [value |-> None, notice |-> "The collection does not exist."]
    ELSE [value |-> args[3], notice |-> ""]

\* @st.cache_resource: the stored result of an earlier call with these arguments
\* (a None included), else the body's.
cached_get_collection(args, status) ==
    IF args \in DOMAIN cache THEN cache[args] ELSE get_collection(args, status)

\* A variant that stores only a collection, keeping the held one on a failure.
store_only_success(pressed, result, held) ==
    IF pressed = "Plot Data" /\ result.value # None THEN result.value ELSE held

\* st.session_state.collection after the 'Plot Data' button's block.
store(pressed, result, held) ==
    IF pressed = "Plot Data" THEN result.value ELSE held

\* plot_data on the held collection; its aggregate calls need the server.
render(handle, status, plot_type, keys) ==
    IF handle = None THEN [raised |-> "", fig1 |-> <<>>, fig2 |-> <<>>]
    ELSE IF status = "down"
    THEN [raised |-> "ServerSelectionTimeoutError", fig1 |-> <<>>, fig2 |-> <<>>]
    ELSE IF status = "denied"
    THEN [raised |-> "OperationFailure", fig1 |-> <<>>, fig2 |-> <<>>]
    ELSE plot_data(Documents(handle), plot_type, keys)

\* The 'Export Data to CSV' block: main has no variable named collection, so
\* evaluating the argument of export_data_to_csv raises NameError.
export_block(pressed, held, keys) ==
    IF pressed = "Export Data to CSV"
    THEN [raised |-> "NameError", download |-> <<>>]
    ELSE [raised |-> "", download |-> <<>>]

\* One script run of main.  pressed is the button whose click started the run
\* ("" for a rerun started by another widget); a run is started by one click.
Main(pressed, args, status, plot_type) ==
    LET result == IF pressed = "Plot Data"
                  THEN cached_get_collection(args, status)
                  ELSE [value |-> None, notice |-> ""]
        held == store(pressed, result, session_state)
        plotted == render(held, status, plot_type, keys_to_consider)
        exported == IF plotted.raised # ""
                    THEN [raised |-> plotted.raised, download |-> <<>>]
                    ELSE export_block(pressed, held, keys_to_consider)
    IN /\ session_state' = held
       /\ cache' = IF pressed = "Plot Data" /\ args \notin DOMAIN cache
                   THEN cache @@ (args :> result)
                   ELSE cache
       /\ ui' = [pressed |-> pressed,
                 returned |-> result.value,
                 notice |-> result.notice,
                 success |-> pressed = "Plot Data" /\ result.value # None,
                 warning |-> pressed = "Plot Data" /\ result.value = None,
                 charts |-> plotted.fig1 \o plotted.fig2,
                 error |-> exported.raised,
                 download |-> exported.download]
       /\ UNCHANGED <<collection, keys_to_consider, call, ret>>

\* A run started by a click on 'Plot Data'.
Press ==
    \E args \in TextInputs, status \in Status, plot_type \in {"Bar Chart", "Line Chart"} :
        Main("Plot Data", args, status, plot_type)

\* A run started by a click on 'Export Data to CSV' or by another widget; the
\* text inputs are not read by such a run.
Rerun ==
    \E pressed \in {"", "Export Data to CSV"}, status \in Status,
       plot_type \in {"Bar Chart", "Line Chart"} :
        Main(pressed, <<"mongodb://host", "tv", "series">>, status, plot_type)

InitUI ==
    /\ collection \in {Scenario, <<Doc(StringV, Missing, ArrayV(1), Missing)>>}
    /\ keys_to_consider = <<"cast">>
    /\ InitIdle

NextSeasons == CalculateSeasons \/ CalculateProfessionals
NextCredits == CalculateProfessionals
Next == PlotData \/ ExportDataToCsv
NextUI == Press \/ Rerun

SpecSeasons == InitSeasons /\ [][NextSeasons]_vars
SpecCredits == InitCredits /\ [][NextCredits]_vars
Spec == Init /\ [][Next]_vars
SpecUI == InitUI /\ [][NextUI]_vars

(***************************************************************************)
(* What the specification says of a collection, stated record by record.   *)
(***************************************************************************)
ClaimYears == 2009..(2010 + MaxYearOffset + MaxSeasons + 3)

IntYear(d) == d.year.t = "int"

\* The season count of the specification: the field when it is a positive
\* integer, else the default 1.
classify_seasons(d) ==
    IF d.number_of_seasons.t = "int" /\ d.number_of_seasons.v >= 1
    THEN d.number_of_seasons.v
    ELSE 1

\* The records whose production window [Y, Y + S) holds y.
InProduction(coll, y) ==
    {i \in 1..Len(coll) :
        /\ IntYear(coll[i])
        /\ coll[i].year.v <= y
        /\ y < coll[i].year.v + classify_seasons(coll[i])}

\* The records that start in y.
Starting(coll, y) == {i \in 1..Len(coll) : coll[i].year = IntV(y)}

\* The length of a credit field's value: of a sequence, else 0.
CreditLength(d, name) ==
    IF name \in DOMAIN d /\ d[name].t = "array" THEN d[name].v ELSE 0

RECURSIVE CreditsOfRecord(_, _)
CreditsOfRecord(d, names) ==
    IF names = {} THEN 0
    ELSE LET n == CHOOSE x \in names : TRUE
         IN CreditLength(d, n) + CreditsOfRecord(d, names \ {n})

RECURSIVE CreditsOfRecords(_, _, _)
\* The credits of the records of coll with indices in I.
CreditsOfRecords(coll, I, names) ==
    IF I = {} THEN 0
    ELSE LET i == CHOOSE x \in I : TRUE
         IN CreditsOfRecord(coll[i], names) + CreditsOfRecords(coll, I \ {i}, names)

Names(keys) == {keys[i] : i \in 1..Len(keys)}

\* The entry of a count sequence for year y, 0 when years has no y.
CountAt(years, counts, y) ==
    IF \E i \in 1..Len(years) : years[i] = IntV(y)
    THEN counts[CHOOSE i \in 1..Len(years) : years[i] = IntV(y)]
    ELSE 0

RECURSIVE SeqSum(_)
SeqSum(q) == IF q = <<>> THEN 0 ELSE Head(q) + SeqSum(Tail(q))

StrictlyAscending(years) ==
    \A i, j \in 1..Len(years) : i < j => years[i].v < years[j].v

\* Every record with an integer year has a season count C2 covers: absent, or
\* an integer >= 1.
SeasonsCovered(coll) ==
    \A i \in 1..Len(coll) :
        IntYear(coll[i]) =>
            \/ coll[i].number_of_seasons.t = "missing"
            \/ coll[i].number_of_seasons.t = "int" /\ coll[i].number_of_seasons.v >= 1

(***************************************************************************)
(* C2: when calculate_seasons returns, the new-series count of every year  *)
(* y is the number of records starting in y, and, over a record set whose  *)
(* season counts are absent or integers >= 1, the in-production count of y *)
(* is the number of records with Y <= y < Y + S (S = 1 when absent); with  *)
(* other records present it is at most that number plus theirs.  It        *)
(* returns whenever every year is an integer, null or absent.              *)
(***************************************************************************)
C2_Contributions ==
    call = "calculate_seasons" =>
        /\ (\A i \in 1..Len(collection) : collection[i].year.t # "string")
               => ret.raised = ""
        /\ ret.raised = "" =>
            /\ Len(ret.original_frequencies_list) = Len(ret.years)
            /\ Len(ret.modified_frequencies_list) = Len(ret.years)
            /\ \A i \in 1..Len(ret.years) : ret.years[i].v \in ClaimYears
            /\ \A y \in ClaimYears :
                /\ CountAt(ret.years, ret.original_frequencies_list, y)
                       = Cardinality(Starting(collection, y))
                /\ CountAt(ret.years, ret.modified_frequencies_list, y)
                       <= Cardinality(InProduction(collection, y))
                /\ SeasonsCovered(collection) =>
                       CountAt(ret.years, ret.modified_frequencies_list, y)
                           = Cardinality(InProduction(collection, y))

\* Two records overlap in a year, one of them with two or more seasons.
C2_Witness ==
    /\ call = "calculate_seasons"
    /\ ret.raised = ""
    /\ SeasonsCovered(collection)
    /\ \E i \in 1..Len(collection) :
           IntYear(collection[i]) /\ classify_seasons(collection[i]) >= 2
    /\ \E i \in 1..Len(ret.years) :
           ret.modified_frequencies_list[i] >= 2 /\ ret.original_frequencies_list[i] = 0

(***************************************************************************)
(* C3: a record whose year is missing, null or not an integer is excluded: *)
(* neither function raises, and each returns what it returns on the record *)
(* set without those records.                                              *)
(***************************************************************************)
ValidYearsOnly(coll) == SelectSeq(coll, IntYear)

C3_InvalidYearExcluded ==
    /\ call = "calculate_seasons" =>
           ret.raised = "" /\ ret = calculate_seasons(ValidYearsOnly(collection))
    /\ call = "calculate_professionals" =>
           /\ ret.raised = ""
           /\ ret = calculate_professionals(ValidYearsOnly(collection), keys_to_consider)

(***************************************************************************)
(* C4: a season count that is zero, negative, null or not integer-typed is *)
(* replaced by 1, so the in-production count of every year y is the number *)
(* of records with Y <= y < Y + S, S defaulted; no range is empty.         *)
(***************************************************************************)
C4_DefaultSeasons ==
    (call = "calculate_seasons" /\ ret.raised = "") =>
        \A y \in ClaimYears :
            CountAt(ret.years, ret.modified_frequencies_list, y)
                = Cardinality(InProduction(collection, y))

(***************************************************************************)
(* C10: over a record set whose season counts are absent, not integer-     *)
(* typed or integers >= 1, the output of calculate_seasons has, at every   *)
(* index, in-production count >= new-series count, and the new-series      *)
(* counts sum to the number of records with a non-null year.               *)
(***************************************************************************)
SeasonsPositive(coll) ==
    \A i \in 1..Len(coll) :
        coll[i].number_of_seasons.t = "int" => coll[i].number_of_seasons.v >= 1

NonNullYear(coll) == {i \in 1..Len(coll) : coll[i].year \notin {Missing, Null}}

C10_PresenceCoversNew ==
    (call = "calculate_seasons" /\ ret.raised = "" /\ SeasonsPositive(collection)) =>
        /\ \A i \in 1..Len(ret.years) :
               ret.modified_frequencies_list[i] >= ret.original_frequencies_list[i]
        /\ SeqSum(ret.original_frequencies_list) = Cardinality(NonNullYear(collection))

\* A record without an integer season count and a record with a null year.
C10_Witness ==
    /\ call = "calculate_seasons"
    /\ ret.raised = ""
    /\ SeasonsPositive(collection)
    /\ Len(ret.years) >= 1
    /\ \E i \in 1..Len(collection) :
           IntYear(collection[i]) /\ collection[i].number_of_seasons.t \in {"null", "double"}
    /\ \E i \in 1..Len(collection) : collection[i].year = Null

(***************************************************************************)
(* C5: the credit total calculate_professionals computes for a year Y is   *)
(* the sum, over the records whose year is Y and over the listed field     *)
(* names, of the length of the field's value when it is a sequence and 0   *)
(* otherwise; the totals are returned in ascending order of the years; and *)
(* the call fails only on years of different types, never on a value that  *)
(* is not a sequence.                                                      *)
(***************************************************************************)
RecordsOfYear(coll, Y) == {i \in 1..Len(coll) : coll[i].year = Y}

C5_CreditTotals ==
    call = "calculate_professionals" =>
        LET counter == ret.credits_counter
            years == {collection[i].year : i \in NonNullYear(collection)}
        IN /\ DOMAIN counter = years
           /\ \A Y \in years :
                  counter[Y] = CreditsOfRecords(collection, RecordsOfYear(collection, Y),
                                                Names(keys_to_consider))
           /\ ret.raised # "" => \E Y, Z \in years : Y.t # Z.t
           /\ ret.raised = "" =>
                  /\ Len(ret.credits) = Cardinality(years)
                  /\ \A Y \in years :
                         ret.credits[1 + Cardinality({Z \in years : Z.v < Y.v})] = counter[Y]

\* Two records of one year, a value that is not a sequence under a listed name,
\* and a total of two credits or more.
C5_Witness ==
    /\ call = "calculate_professionals"
    /\ ret.raised = ""
    /\ \E i \in 1..Len(keys_to_consider), j \in 1..Len(collection) :
           /\ keys_to_consider[i] \in DOMAIN collection[j]
           /\ collection[j][keys_to_consider[i]].t = "string"
           /\ IntYear(collection[j])
    /\ \E i \in 1..Len(ret.credits) : ret.credits[i] >= 2

(***************************************************************************)
(* C6: the years handed to the charts are strictly ascending, and the four *)
(* sequences (years, in-production, new series, credits) have one length.  *)
(***************************************************************************)
C6_AlignedLengths ==
    (call = "plot_data" /\ ret.raised = "") =>
        /\ StrictlyAscending(ret.fig1[1].x)
        /\ \A t \in {ret.fig1[1], ret.fig1[2], ret.fig2[1]} :
               t.x = ret.fig1[1].x /\ Len(t.y) = Len(t.x)

(***************************************************************************)
(* C7: the CSV has one row per aligned year; in each row the cell 'Total   *)
(* Series in Production' is the in-production count of the row's Year,     *)
(* 'New Series' the number of records starting in it, and 'Professionals'  *)
(* its credit total, or the missing-value marker when it has none.         *)
(***************************************************************************)
AlignedYears(coll) ==
    {y \in ClaimYears : InProduction(coll, y) # {} \/ Starting(coll, y) # {}}

C7_RowsOfTheirYear ==
    (call = "export_data_to_csv" /\ ret.raised = "") =>
        /\ ret.header = <<"Year", "Total Series in Production", "New Series",
                          "Professionals">>
        /\ Len(ret.rows) = Cardinality(AlignedYears(collection))
        /\ \A r \in 1..Len(ret.rows) :
               LET y == ret.rows[r][1].v
               IN /\ ret.rows[r][2].v = Cardinality(InProduction(collection, y))
                  /\ ret.rows[r][3].v = Cardinality(Starting(collection, y))
                  /\ IF Starting(collection, y) = {}
                     THEN ret.rows[r][4].t = "nan"
                     ELSE /\ ret.rows[r][4].t # "nan"
                          /\ ret.rows[r][4].v =
                                 CreditsOfRecords(collection, Starting(collection, y),
                                                  Names(keys_to_consider))

(***************************************************************************)
(* C1: on the scenario's record set with credit fields ["cast"] the charts *)
(* get years = [2010, 2011, 2012], new = [2, 0, 1], in production =        *)
(* [2, 1, 2] (the second record covers 2010, 2011 and 2012), and the       *)
(* credit totals 0 for 2010 and 2 for 2012, returned as [0, 2].            *)
(***************************************************************************)
ScenarioYears == <<IntV(2010), IntV(2011), IntV(2012)>>

C8_NoStaleCharts ==
    [][/\ ui'.pressed = "Plot Data" =>
              /\ session_state' = ui'.returned
              /\ ui'.returned = None => (ui'.warning /\ ui'.charts = <<>>)
       /\ ui'.pressed # "Plot Data" => session_state' = session_state
       /\ ui'.charts # <<>> =>
              /\ session_state' # None
              /\ \E plot_type \in {"Bar Chart", "Line Chart"} :
                     LET p == plot_data(Documents(session_state'), plot_type,
                                        keys_to_consider)
                     IN ui'.charts = p.fig1 \o p.fig2]_vars

\* A failed press after an earlier press had stored a working collection.
C8_Witness ==
    /\ ui.pressed = "Plot Data"
    /\ ui.returned = None
    /\ ui.warning
    /\ ui.charts = <<>>
    /\ session_state = None
    /\ \E a \in DOMAIN cache : cache[a].value # None

(***************************************************************************)
(* C9: a run in which 'Export Data to CSV' is pressed raises no unhandled  *)
(* error of its own; with a collection held it offers the CSV computed     *)
(* from that collection, and with none held it computes nothing.           *)
(***************************************************************************)
C9_ExportFromSession ==
    (ui.pressed = "Export Data to CSV" /\ ui.error \notin
        {"ServerSelectionTimeoutError", "OperationFailure", "TypeError"}) =>
        /\ ui.error = ""
        /\ session_state # None =>
               ui.download = <<export_data_to_csv(Documents(session_state),
                                                  keys_to_consider)>>
        /\ session_state = None => ui.download = <<>>

====
